---- MODULE Spec2Model ----
(***************************************************************************)
(* Model of the numerai_blocks post-processing stages                      *)
(* (src/numerai_blocks/postprocessing.py, src/numerai_blocks/              *)
(* preprocessing.py).                                                      *)
(*                                                                         *)
(* Real numbers are fixed-point integers with three decimals: the integer  *)
(* v stands for v / SCALE.  A data frame is a function from column names   *)
(* to sequences of equal length (one entry per row, in row order).         *)
(* pandas semantics are those of pandas 1.x (groupby.apply of a            *)
(* like-indexed result is returned in the caller's row order).             *)
(***************************************************************************)
EXTENDS Integers, Sequences, FiniteSets, TLC

VARIABLES
    dataf,      \* the table held by the caller's Dataset object (dataset.dataf)
    before,     \* dataset.dataf as it was when the latest transform was called
    proc,       \* the processor object the caller holds
    lastCall,   \* the latest constructor/transform call and how it ended
    called,     \* the caller has applied its processor to the dataset
    pc,         \* position inside FeaturePenalizer.transform
    fpl,        \* locals of the running FeaturePenalizer.transform
    ret,        \* locals and return value of the latest direct call of a helper method
    subm,       \* a submittor: its call position, the files in its directory, the uploads
    nb          \* a numerblox preprocessor object, the frame it works on, its worker pool

vars == <<dataf, before, proc, lastCall, called, pc, fpl, ret, subm, nb>>

\* the state of the post-processing stages
postVars == <<dataf, before, proc, lastCall, called, pc, fpl, ret>>

(***************************************************************************)
(* Bounds of the model.                                                    *)
(***************************************************************************)
MaxRows == 3        \* rows of the data frame
MaxFeatures == 2    \* exposure columns of a loss evaluation

(***************************************************************************)
(* Fixed-point reals, NaN and infinity.                                    *)
(***************************************************************************)
SCALE == 10 ^ 3
NaN == -(10 ^ 9)
PosInf == 10 ^ 9
NegInf == -(10 ^ 9) + 1

IsNaN(x) == x = NaN
IsInf(x) == x = PosInf \/ x = NegInf
IsFinite(x) == ~IsNaN(x) /\ ~IsInf(x)

Abs(x) == IF x < 0 THEN -x ELSE x

\* integer quotient rounded towards zero, b > 0
TDiv(a, b) == IF a >= 0 THEN a \div b ELSE -((-a) \div b)

\* floating point division x / y on finite operands or NaN
FDivide(x, y) ==
    IF IsNaN(x) \/ IsNaN(y) THEN NaN
    ELSE IF y = 0 THEN (IF x = 0 THEN NaN ELSE IF x > 0 THEN PosInf ELSE NegInf)
    ELSE IF y > 0 THEN TDiv(x * SCALE, y)
    ELSE TDiv(-(x * SCALE), -y)

RECURSIVE SqrtBits(_, _, _)
\* largest k with k*k <= x, found by binary descent over bit b
SqrtBits(x, k, b) ==
    IF b = 0 THEN k
    ELSE LET t == k + b
         IN  SqrtBits(x, IF t * t <= x THEN t ELSE k, b \div 2)

ISqrt(x) == SqrtBits(x, 0, 32768)

\* the sequence s with all its entries evaluated
Eval(s) == s \o <<>>

RECURSIVE SumSeq(_)
SumSeq(s) == IF s = <<>> THEN 0 ELSE Head(s) + SumSeq(Tail(s))

Range(s) == {s[i] : i \in DOMAIN s}

SetMin(S) == CHOOSE x \in S : \A y \in S : x <= y
SetMax(S) == CHOOSE x \in S : \A y \in S : x >= y

(***************************************************************************)
(* Data frames.                                                            *)
(***************************************************************************)
NRows(df) == Len(df["era"])

SetAllColumns(df, col, values) == [c \in (DOMAIN df) \cup {col} |-> values]

\* dataf.loc[:, col] = values  (adds the column or overwrites it in place)
SetColumn(df, col, values) ==
    [c \in (DOMAIN df) \cup {col} |-> IF c = col THEN values ELSE df[c]]

\* dataf.loc[:, cols]
SelectColumns(df, cols) == [c \in cols |-> df[c]]

\* rows of one group, in row order
RowsOfEra(df, era) == {i \in 1..NRows(df) : df["era"][i] = era}

RECURSIVE SeqOfSet(_)
\* the elements of a set of integers in ascending order
SeqOfSet(S) == IF S = {} THEN <<>>
               ELSE <<SetMin(S)>> \o SeqOfSet(S \ {SetMin(S)})

\* column values of the rows idx (a sequence of row numbers)
Take(col, idx) == Eval([k \in 1..Len(idx) |-> col[idx[k]]])

(***************************************************************************)
(* Numeric helpers of FeatureNeutralizer.                                  *)
(***************************************************************************)
RankMin(xs) ==
    Eval([i \in 1..Len(xs) |-> 1 + Cardinality({j \in 1..Len(xs) : xs[j] < xs[i]})])

\* DataFrame.rank(method="first") / scipy.stats.rankdata(method="ordinal"):
\* ties are ranked in row order
RankFirst(xs) ==
    Eval([i \in 1..Len(xs) |->
            1 + Cardinality({j \in 1..Len(xs) : xs[j] < xs[i]})
              + Cardinality({j \in 1..(i - 1) : xs[j] = xs[i]})])

\* scipy.stats.norm.ppf((k - 0.5) / n), three decimals, for n <= 6
PpfTable ==
    << <<0>>,
       <<-674, 674>>,
       <<-967, 0, 967>>,
       <<-1150, -319, 319, 1150>>,
       <<-1282, -524, 0, 524, 1282>>,
       <<-1383, -674, -210, 210, 674, 1383>> >>

NormPpf(k, n) == PpfTable[n][k]

\* normalized_ranks = (dataf.rank(method="first") - 0.5) / len(dataf)
NormalizedRanks(xs) ==
    LET ranks == RankFirst(xs)
    IN  Eval([i \in 1..Len(xs) |-> TDiv(ranks[i] * SCALE - SCALE \div 2, Len(xs))])

\* FeatureNeutralizer._normalize
Normalize(xs) ==
    LET ranks == RankFirst(xs)
    IN  Eval([i \in 1..Len(xs) |-> NormPpf(ranks[i], Len(xs))])

Dot(a, b) == SumSeq([i \in 1..Len(a) |-> a[i] * b[i]])

\* exposures.dot(np.linalg.pinv(exposures).dot(scores)) for an exposure
\* matrix given as the sequence of its columns (at most one column)
Projection(exposures, scores) ==
    IF Len(exposures) = 0 \/ Dot(exposures[1], exposures[1]) = 0
    THEN Eval([i \in 1..Len(scores) |-> 0])
    ELSE LET e == exposures[1]
             coef == TDiv(Dot(e, scores) * SCALE, Dot(e, e))
         IN  Eval([i \in 1..Len(scores) |-> TDiv(e[i] * coef, SCALE)])

\* pandas std (ddof = 1): NaN for a single value
Std(xs) ==
    IF Len(xs) < 2 THEN NaN
    ELSE LET mean == TDiv(SumSeq(xs), Len(xs))
             sq == SumSeq([i \in 1..Len(xs) |-> (xs[i] - mean) * (xs[i] - mean)])
         IN  ISqrt(sq \div (Len(xs) - 1))

NeutralizeFull(scores, exposures, proportion) ==
    LET proj == Projection(exposures, scores)
        res == Eval([i \in 1..Len(scores) |-> scores[i] - proj[i]])
        sd == Std(res)
    IN  Eval([i \in 1..Len(scores) |-> FDivide(res[i], sd)])

\* FeatureNeutralizer._neutralize
Neutralize(scores, exposures, proportion) ==
    LET proj == Projection(exposures, scores)
        res == Eval([i \in 1..Len(scores) |->
                        scores[i] - TDiv(proportion * proj[i], SCALE)])
        sd == Std(res)
    IN  Eval([i \in 1..Len(scores) |-> FDivide(res[i], sd)])

\* FeatureNeutralizer.normalize_and_neutralize on the rows idx of df
NormalizeAndNeutralize(df, idx, column, by, proportion) ==
    Neutralize(Normalize(Take(df[column], idx)),
               Eval([f \in 1..Len(by) |-> Take(df[by[f]], idx)]),
               proportion)

\* dataf.groupby("era"): the group keys, sorted
GroupKeys(df) == SeqOfSet(Range(df["era"]))

\* dataf.groupby("era").apply(f): f runs on each group, the results are
\* put back at the rows they came from
GroupByApply(df, column, by, proportion) ==
    LET keys == GroupKeys(df)
        applied == Eval([g \in 1..Len(keys) |->
                           NormalizeAndNeutralize(df, SeqOfSet(RowsOfEra(df, keys[g])),
                                                  column, by, proportion)])
    IN  Eval([i \in 1..NRows(df) |->
                LET g == CHOOSE k \in 1..Len(keys) : keys[k] = df["era"][i]
                    pos == Cardinality({j \in RowsOfEra(df, keys[g]) : j <= i})
                IN  applied[g][pos]])

\* sklearn MinMaxScaler().fit_transform on one column: min and max are
\* taken over all rows, NaN is ignored by fit and kept by transform
MinMaxScale(xs) ==
    LET defined == {xs[i] : i \in {j \in 1..Len(xs) : ~IsNaN(xs[j])}}
    IN  IF defined = {} THEN xs
        ELSE LET lo == SetMin(defined)
                 hi == SetMax(defined)
             IN  Eval([i \in 1..Len(xs) |->
                        IF IsNaN(xs[i]) THEN NaN
                        ELSE IF hi = lo THEN xs[i] - lo
                        ELSE TDiv((xs[i] - lo) * SCALE, hi - lo)])

(***************************************************************************)
(* Numeric helpers of FeaturePenalizer.                                    *)
(***************************************************************************)
\* x - tf.math.reduce_mean(x, axis=0)
Center(xs) == LET mean == TDiv(SumSeq(xs), Len(xs))
              IN  Eval([i \in 1..Len(xs) |-> xs[i] - mean])

\* tf.norm(x, axis=0)
Norm(xs) == ISqrt(SumSeq([i \in 1..Len(xs) |-> xs[i] * xs[i]]))

\* x / tf.norm(x, axis=0)
Unit(xs) == LET norm == Norm(xs)
            IN  Eval([i \in 1..Len(xs) |-> FDivide(xs[i], norm)])

\* inner product, NaN if an operand is NaN
NanDot(a, b) ==
    IF \E i \in 1..Len(a) : IsNaN(a[i]) \/ IsNaN(b[i]) THEN NaN
    ELSE TDiv(Dot(a, b), SCALE)

\* FeaturePenalizer.__exposures(x, y): one value per column of x
Exposures(x, y) ==
    [f \in 1..Len(x) |-> NanDot(Unit(Center(x[f])), Unit(Center(y)))]

\* tf.clip_by_value(v, lo, hi)
ClipByValue(v, lo, hi) ==
    IF IsNaN(v) THEN NaN ELSE IF v < lo THEN lo ELSE IF v > hi THEN hi ELSE v

\* tf.nn.relu
Relu(x) == IF IsNaN(x) THEN NaN ELSE IF x > 0 THEN x ELSE 0

LossTermPositiveOnly(exp, target_exp) ==
    IF IsNaN(exp) \/ IsNaN(target_exp) THEN NaN
    ELSE Relu(Relu(exp) - Relu(target_exp))

\* one entry of the tensor summed by the loss of __train_loop_body
LossTerm(exp, target_exp) ==
    IF IsNaN(exp) \/ IsNaN(target_exp) THEN NaN
    ELSE Relu(Relu(exp) - Relu(target_exp)) + Relu(Relu(-exp) - Relu(-target_exp))

\* loss = tf.reduce_sum(...) of __train_loop_body
Loss(exps, target_exps) ==
    IF \E f \in 1..Len(exps) : IsNaN(LossTerm(exps[f], target_exps[f])) THEN NaN
    ELSE SumSeq([f \in 1..Len(exps) |-> LossTerm(exps[f], target_exps[f])])

UniqueSorted(xs) == SeqOfSet(Range(xs))

\* df[era_col].unique(): the era keys in order of first appearance
RECURSIVE Unique(_)
Unique(xs) ==
    IF xs = <<>> THEN <<>>
    ELSE LET init == Unique(SubSeq(xs, 1, Len(xs) - 1))
             last == xs[Len(xs)]
         IN  IF last \in Range(init) THEN init ELSE Append(init, last)

(***************************************************************************)
(* Column taxonomy of the Dataset object (name prefixes).                  *)
(***************************************************************************)
FeatureColumnNames == {"feature_1"}

\* dataset.feature_cols
FeatureCols(df) == IF "feature_1" \in DOMAIN df THEN <<"feature_1">> ELSE <<>>

\* dataset.target_cols + dataset.prediction_cols + dataset.aux_cols
NonFeatureCols(df) == (DOMAIN df) \ FeatureColumnNames

(***************************************************************************)
(* Processor objects.                                                      *)
(***************************************************************************)
\* str() of a Python float
FloatStr(x) ==
    CASE x = -500 -> "-0.5"
      [] x = 0 -> "0.0"
      [] x = 500 -> "0.5"
      [] x = 1000 -> "1.0"
      [] x = 1500 -> "1.5"

ParamInputs == {-500, 0, 500, 1000, 1500}
EraKeys == {1, 2}
PredValues == {0, 500}
MaxExposureInputs == {-500, 500, 1500}
FeatureValues == {0, SCALE}

NoProc == [cls |-> "none"]

\* f"{self.pred_name}_neutralized_{self.proportion}"
NeutralizedColName(pred_name, proportion) ==
    pred_name \o "_neutralized_" \o FloatStr(proportion)

\* new_pred_col of FeaturePenalizer.transform
NewPredCol(pred_name, model_name, max_exposure) ==
    "prediction_" \o pred_name \o "_" \o model_name \o "_FP_" \o FloatStr(max_exposure)

ProportionNonNegative(proportion) == 0 <= proportion

\* the range assertion of FeatureNeutralizer.__init__
ProportionInRange(proportion) == 0 <= proportion /\ proportion <= SCALE

\* the range assertion of FeaturePenalizer.__init__
MaxExposureInRange(max_exposure) == 0 <= max_exposure /\ max_exposure <= SCALE

\* the assertion of MeanEnsembler.__init__
StartsWithPrediction(name) == name \in {"prediction_ens"}

FplIdle == [entry |-> "none", normalize |-> TRUE, model_idx |-> 0,
            neutralizers |-> <<>>, eras |-> <<>>, era_idx |-> 0,
            scores |-> <<>>, exposure_values |-> <<>>, weights |-> <<>>,
            optimizer |-> FALSE, target_exps |-> <<>>, i |-> 0,
            stop |-> "none", penalized |-> <<>>, neutralized |-> <<>>,
            predictions |-> <<>>]

NoRet == [op |-> "none"]

\* no submittor has been called yet: empty directory, nothing uploaded
SubmIdle == [pc |-> "idle", kind |-> "none", dataf |-> <<>>, cols |-> <<>>,
             model_name |-> "none", checked |-> {}, files |-> {}, uploads |-> <<>>,
             outcome |-> "none", log |-> <<>>]

\* no numerblox preprocessor has been constructed yet
NbIdle == [cls |-> "none"]

Init ==
    /\ \E n \in 1..MaxRows :
         \E era \in [1..n -> EraKeys], prediction \in [1..n -> PredValues],
            feature \in [1..n -> FeatureValues] :
              dataf = [c \in {"era", "prediction", "feature_1"} |->
                         IF c = "era" THEN era
                         ELSE IF c = "prediction" THEN prediction ELSE feature]
    /\ before = dataf
    /\ proc = NoProc
    /\ lastCall = [op |-> "none", outcome |-> "none"]
    /\ called = FALSE
    /\ pc = "idle"
    /\ fpl = FplIdle
    /\ ret = NoRet
    /\ subm = SubmIdle
    /\ nb = NbIdle

(***************************************************************************)
(* Constructors.                                                           *)
(***************************************************************************)
\* FeatureNeutralizer.__init__
FeatureNeutralizerInit(feature_names, proportion) ==
    /\ pc = "idle"
    /\ proc.cls = "none"
    /\ ~called
    /\ IF ProportionInRange(proportion)
       THEN /\ proc' = [cls |-> "FeatureNeutralizer", proportion |-> proportion,
                        feature_names |-> feature_names, pred_name |-> "prediction",
                        new_col_name |-> NeutralizedColName("prediction", proportion)]
            /\ lastCall' = [op |-> "FeatureNeutralizer.__init__", outcome |-> "returned"]
       ELSE /\ proc' = NoProc
            /\ lastCall' = [op |-> "FeatureNeutralizer.__init__", outcome |-> "AssertionError"]
    /\ UNCHANGED <<subm, nb, ret, dataf, before, called, pc, fpl>>

\* FeaturePenalizer.__init__
FeaturePenalizerInit(model_list, max_exposure, risky_feature_names) ==
    /\ pc = "idle"
    /\ proc.cls = "none"
    /\ ~called
    /\ IF MaxExposureInRange(max_exposure)
       THEN /\ proc' = [cls |-> "FeaturePenalizer", model_list |-> model_list,
                        max_exposure |-> max_exposure,
                        risky_feature_names |-> risky_feature_names,
                        pred_name |-> "prediction"]
            /\ lastCall' = [op |-> "FeaturePenalizer.__init__", outcome |-> "returned"]
       ELSE /\ proc' = NoProc
            /\ lastCall' = [op |-> "FeaturePenalizer.__init__", outcome |-> "AssertionError"]
    /\ UNCHANGED <<subm, nb, ret, dataf, before, called, pc, fpl>>

\* MeanEnsembler.__init__
MeanEnsemblerInit(cols, final_col_name) ==
    /\ pc = "idle"
    /\ proc.cls = "none"
    /\ ~called
    /\ IF StartsWithPrediction(final_col_name)
       THEN /\ proc' = [cls |-> "MeanEnsembler", cols |-> cols,
                        final_col_name |-> final_col_name]
            /\ lastCall' = [op |-> "MeanEnsembler.__init__", outcome |-> "returned"]
       ELSE /\ proc' = NoProc
            /\ lastCall' = [op |-> "MeanEnsembler.__init__", outcome |-> "AssertionError"]
    /\ UNCHANGED <<subm, nb, ret, dataf, before, called, pc, fpl>>

\* FeatureSelectionPreProcessor.__init__
FeatureSelectionPreProcessorInit ==
    /\ pc = "idle"
    /\ proc.cls = "none"
    /\ ~called
    /\ proc' = [cls |-> "FeatureSelectionPreProcessor"]
    /\ lastCall' = [op |-> "FeatureSelectionPreProcessor.__init__", outcome |-> "returned"]
    /\ UNCHANGED <<subm, nb, ret, dataf, before, called, pc, fpl>>

(***************************************************************************)
(* transform of the one-step processors.                                   *)
(***************************************************************************)
HasColumns(df, names) == \A k \in 1..Len(names) : names[k] \in DOMAIN df

\* neutralized_preds of FeatureNeutralizer.transform for the frame df
NeutralizedPreds(df, p) ==
    GroupByApply(df, p.pred_name, p.feature_names, p.proportion)

\* the column FeatureNeutralizer.transform computes for the frame df
NeutralizedColumn(df, p) == MinMaxScale(NeutralizedPreds(df, p))

NeutralizerTargetInPlace(p) == p.pred_name

\* the column written by FeatureNeutralizer.transform
NeutralizerTarget(p) == p.new_col_name

\* FeatureNeutralizer.transform
FeatureNeutralizerTransform ==
    /\ pc = "idle"
    /\ proc.cls = "FeatureNeutralizer"
    /\ ~called
    /\ called' = TRUE
    /\ before' = dataf
    /\ IF ~HasColumns(dataf, proc.feature_names)
       THEN /\ lastCall' = [op |-> "FeatureNeutralizer.transform", outcome |-> "KeyError"]
            /\ dataf' = dataf
       ELSE LET neutralized_preds == NeutralizedPreds(dataf, proc)
            IN  IF \E i \in 1..NRows(dataf) : IsInf(neutralized_preds[i])
                \* MinMaxScaler rejects infinite input
                THEN /\ lastCall' = [op |-> "FeatureNeutralizer.transform",
                                     outcome |-> "ValueError"]
                     /\ dataf' = dataf
                ELSE /\ lastCall' = [op |-> "FeatureNeutralizer.transform",
                                     outcome |-> "returned"]
                     /\ dataf' = SetColumn(dataf, NeutralizerTarget(proc),
                                           MinMaxScale(neutralized_preds))
    /\ UNCHANGED <<subm, nb, ret, proc, pc, fpl>>

\* DataFrame.mean(axis=1) of one row: NaN entries are skipped
RowMean(df, cols, i) ==
    LET defined == {k \in 1..Len(cols) : ~IsNaN(df[cols[k]][i])}
    IN  IF defined = {} THEN NaN
        ELSE TDiv(SumSeq([k \in 1..Len(cols) |->
                             IF k \in defined THEN df[cols[k]][i] ELSE 0]),
                  Cardinality(defined))

\* MeanEnsembler.transform
MeanEnsemblerTransform ==
    /\ pc = "idle"
    /\ proc.cls = "MeanEnsembler"
    /\ ~called
    /\ called' = TRUE
    /\ before' = dataf
    /\ IF ~HasColumns(dataf, proc.cols)
       THEN /\ lastCall' = [op |-> "MeanEnsembler.transform", outcome |-> "KeyError"]
            /\ dataf' = dataf
       ELSE /\ lastCall' = [op |-> "MeanEnsembler.transform", outcome |-> "returned"]
            /\ dataf' = SetColumn(dataf, proc.final_col_name,
                                  [i \in 1..NRows(dataf) |-> RowMean(dataf, proc.cols, i)])
    /\ UNCHANGED <<subm, nb, ret, proc, pc, fpl>>

\* FeatureSelectionPreProcessor.transform
FeatureSelectionPreProcessorTransform(feature_cols) ==
    /\ pc = "idle"
    /\ proc.cls = "FeatureSelectionPreProcessor"
    /\ ~called
    /\ called' = TRUE
    /\ before' = dataf
    /\ IF ~HasColumns(dataf, feature_cols)
       THEN /\ lastCall' = [op |-> "FeatureSelectionPreProcessor.transform",
                            outcome |-> "KeyError"]
            /\ dataf' = dataf
       ELSE /\ lastCall' = [op |-> "FeatureSelectionPreProcessor.transform",
                            outcome |-> "returned"]
            /\ dataf' = SelectColumns(dataf, Range(feature_cols) \cup NonFeatureCols(dataf))
    /\ UNCHANGED <<subm, nb, ret, proc, pc, fpl>>

\* the static method FeatureNeutralizer._normalize called on
\* dataset.dataf[[pred_name]]
NormalizeCall ==
    /\ pc = "idle"
    /\ proc.cls = "none"
    /\ ~called
    /\ called' = TRUE
    /\ before' = dataf
    /\ ret' = [op |-> "_normalize",
               ranks |-> RankFirst(dataf["prediction"]),
               normalized_ranks |-> NormalizedRanks(dataf["prediction"]),
               value |-> Normalize(dataf["prediction"])]
    /\ lastCall' = [op |-> "FeatureNeutralizer._normalize", outcome |-> "returned"]
    /\ UNCHANGED <<subm, nb, dataf, proc, pc, fpl>>

(***************************************************************************)
(* FeaturePenalizer.transform, one action per step of its loops.           *)
(***************************************************************************)
\* range(1000000) in _train_loop
TrainBudget == 1000000

FPRaise(error) ==
    /\ pc' = "idle"
    /\ lastCall' = [op |-> "FeaturePenalizer." \o fpl.entry, outcome |-> error]

\* FeaturePenalizer.transform is called: line 89
FeaturePenalizerTransform ==
    /\ pc = "idle"
    /\ proc.cls = "FeaturePenalizer"
    /\ ~called
    /\ called' = TRUE
    /\ before' = dataf
    /\ fpl' = [FplIdle EXCEPT !.entry = "transform", !.normalize = TRUE,
                              !.model_idx = 1,
                              !.neutralizers = IF proc.risky_feature_names = <<>>
                                               THEN FeatureCols(dataf)
                                               ELSE proc.risky_feature_names]
    /\ pc' = "for_model"
    /\ lastCall' = [op |-> "FeaturePenalizer.transform", outcome |-> "running"]
    /\ UNCHANGED <<subm, nb, ret, dataf, proc>>

\* FeaturePenalizer.reduce_all_exposures is called on dataset.dataf with
\* neutralizers=None or neutralizers=[]: lines 109-111
ReduceAllExposuresCall(normalize, neutralizers_is_none) ==
    /\ pc = "idle"
    /\ proc.cls = "FeaturePenalizer"
    /\ ~called
    /\ called' = TRUE
    /\ before' = dataf
    /\ fpl' = [FplIdle EXCEPT !.entry = "reduce_all_exposures",
                              !.normalize = normalize,
                              !.neutralizers = IF neutralizers_is_none
                                               THEN FeatureCols(dataf) ELSE <<>>,
                              !.eras = Unique(dataf["era"]),
                              !.era_idx = 1]
    /\ pc' = "for_era"
    /\ lastCall' = [op |-> "FeaturePenalizer.reduce_all_exposures", outcome |-> "running"]
    /\ UNCHANGED <<subm, nb, ret, dataf, proc>>

\* for model_name in self.model_list: lines 90-96, and the return of line 99
ForModel ==
    /\ pc = "for_model"
    /\ IF fpl.model_idx > Len(proc.model_list)
       THEN /\ pc' = "idle"
            /\ lastCall' = [op |-> "FeaturePenalizer.transform", outcome |-> "returned"]
            /\ fpl' = fpl
       ELSE /\ pc' = "for_era"
            /\ fpl' = [fpl EXCEPT !.eras = Unique(dataf["era"]), !.era_idx = 1,
                                  !.neutralized = <<>>]
            /\ lastCall' = lastCall
    /\ UNCHANGED <<subm, nb, ret, dataf, before, proc, called>>

ForEraPartial ==
    /\ pc = "for_era"
    /\ fpl.era_idx <= Len(fpl.eras)
    /\ LET idx == SeqOfSet(RowsOfEra(dataf, fpl.eras[fpl.era_idx]))
           written == SetColumn(dataf, "prediction_FP",
                                [i \in 1..NRows(dataf) |->
                                    IF dataf["era"][i] = fpl.eras[fpl.era_idx]
                                    THEN dataf[proc.pred_name][i] ELSE NaN])
       IN  IF ~HasColumns(dataf, fpl.neutralizers)
           THEN FPRaise("KeyError") /\ fpl' = fpl /\ dataf' = written
           ELSE IF fpl.normalize
           THEN FPRaise("TypeError") /\ fpl' = fpl /\ dataf' = written
           ELSE /\ pc' = "reduce_exposure"
                /\ lastCall' = lastCall
                /\ dataf' = written
                /\ fpl' = [fpl EXCEPT
                             !.scores = Take(dataf[proc.pred_name], idx),
                             !.exposure_values =
                                 [f \in 1..Len(fpl.neutralizers) |->
                                     Take(dataf[fpl.neutralizers[f]], idx)]]
    /\ UNCHANGED <<subm, nb, ret, before, proc, called>>

\* for era in df[era_col].unique(): lines 113-125
ForEra ==
    /\ pc = "for_era"
    /\ fpl.era_idx <= Len(fpl.eras)
    /\ LET idx == SeqOfSet(RowsOfEra(dataf, fpl.eras[fpl.era_idx]))
       IN  IF ~HasColumns(dataf, fpl.neutralizers)
           THEN FPRaise("KeyError") /\ fpl' = fpl
           ELSE IF fpl.normalize
           \* scores is one-dimensional: x is a numpy scalar and len(x) raises
           THEN FPRaise("TypeError") /\ fpl' = fpl
           ELSE /\ pc' = "reduce_exposure"
                /\ lastCall' = lastCall
                /\ fpl' = [fpl EXCEPT
                             !.scores = Take(dataf[proc.pred_name], idx),
                             !.exposure_values =
                                 [f \in 1..Len(fpl.neutralizers) |->
                                     Take(dataf[fpl.neutralizers[f]], idx)]]
    /\ UNCHANGED <<subm, nb, ret, dataf, before, proc, called>>

\* feats = features - 0.5
Feats(exposure_values) ==
    [f \in 1..Len(exposure_values) |->
        [i \in 1..Len(exposure_values[f]) |-> exposure_values[f][i] - 500]]

\* target_exps = tf.clip_by_value(start_exp, -max_exp, max_exp)
TargetExps(exposure_values, prediction, max_exp) ==
    LET start_exp == Exposures(Feats(exposure_values), prediction)
    IN  [f \in 1..Len(start_exp) |-> ClipByValue(start_exp[f], -max_exp, max_exp)]

\* FeaturePenalizer.reduce_exposure with weights=None: lines 139-150
ReduceExposure ==
    /\ pc = "reduce_exposure"
    /\ fpl' = [fpl EXCEPT
                 !.weights = [f \in 1..Len(fpl.neutralizers) |-> 0],
                 !.optimizer = TRUE,
                 !.target_exps = TargetExps(fpl.exposure_values, fpl.scores,
                                            proc.max_exposure),
                 !.i = 0]
    /\ pc' = "train_loop"
    /\ UNCHANGED <<subm, nb, ret, dataf, before, proc, lastCall, called>>

\* model(feats) of the bias-free linear model with kernel weights
ModelOutput(feats, weights) ==
    LET n == IF Len(feats) = 0 THEN 0 ELSE Len(feats[1])
    IN  Eval([i \in 1..n |->
                SumSeq([f \in 1..Len(feats) |-> TDiv(feats[f][i] * weights[f], SCALE)])])

\* pred[:,None] - model(feats): line 153
PenalizedScores(prediction, features, weights) ==
    LET out == ModelOutput(Feats(features), weights)
    IN  Eval([i \in 1..Len(prediction) |->
                prediction[i] - (IF Len(features) = 0 THEN 0 ELSE out[i])])

\* weights for one feature column, and a list of the wrong length
WeightInputs == {<<-SCALE>>, <<SCALE \div 2>>, <<0, 0>>}

\* FeaturePenalizer.reduce_exposure called with weights given, on the
\* prediction column and the feature columns of dataset.dataf:
\* lines 139-145 and 151-153
ReduceExposureWarmCall(weights) ==
    /\ pc = "idle"
    /\ proc.cls = "FeaturePenalizer"
    /\ ~called
    /\ called' = TRUE
    /\ before' = dataf
    /\ LET names == FeatureCols(dataf)
           features == [f \in 1..Len(names) |-> dataf[names[f]]]
       IN  IF Len(weights) # Len(names)
           \* model.set_weights rejects a kernel of another shape
           THEN /\ ret' = [op |-> "reduce_exposure", given |-> weights]
                /\ lastCall' = [op |-> "FeaturePenalizer.reduce_exposure",
                                outcome |-> "ValueError"]
           ELSE /\ ret' = [op |-> "reduce_exposure", given |-> weights,
                           optimizer |-> FALSE, steps |-> 0,
                           scores |-> PenalizedScores(dataf[proc.pred_name],
                                                      features, weights),
                           weights |-> weights]
                /\ lastCall' = [op |-> "FeaturePenalizer.reduce_exposure",
                                outcome |-> "returned"]
    /\ UNCHANGED <<subm, nb, dataf, proc, pc, fpl>>

\* FeaturePenalizer._train_loop: the first call of __train_loop_body looks
\* up self.exposures, which the class does not define
TrainLoop ==
    /\ pc = "train_loop"
    /\ fpl.i < TrainBudget
    /\ FPRaise("AttributeError")
    /\ fpl' = [fpl EXCEPT !.stop = "raised"]
    /\ UNCHANGED <<subm, nb, ret, dataf, before, proc, called>>

Next ==
    \/ \E feature_names \in {<<>>, <<"feature_1">>, <<"feature_2">>},
          proportion \in ParamInputs :
         FeatureNeutralizerInit(feature_names, proportion)
    \/ \E model_list \in {<<>>, <<"m1", "m2">>}, max_exposure \in MaxExposureInputs,
          risky_feature_names \in {<<>>, <<"feature_1">>, <<"feature_2">>} :
         FeaturePenalizerInit(model_list, max_exposure, risky_feature_names)
    \/ \E cols \in {<<"prediction">>, <<"prediction", "feature_1">>},
          final_col_name \in {"prediction_ens", "ens"} :
         MeanEnsemblerInit(cols, final_col_name)
    \/ FeatureSelectionPreProcessorInit
    \/ FeatureNeutralizerTransform
    \/ NormalizeCall
    \/ MeanEnsemblerTransform
    \/ \E feature_cols \in {<<>>, <<"feature_1">>} :
         FeatureSelectionPreProcessorTransform(feature_cols)
    \/ FeaturePenalizerTransform
    \/ \E normalize \in BOOLEAN, neutralizers_is_none \in BOOLEAN :
         ReduceAllExposuresCall(normalize, neutralizers_is_none)
    \/ \E weights \in WeightInputs : ReduceExposureWarmCall(weights)
    \/ ForModel
    \/ ForEra
    \/ ReduceExposure
    \/ TrainLoop

Spec == Init /\ [][Next]_vars

(***************************************************************************)
(* The neutralizer alone, on frames in which every era has at least two    *)
(* rows, so that every era's neutralized scores are defined.               *)
(***************************************************************************)
InitEras ==
    /\ \E n \in 2..(MaxRows + 1) :
         \E era \in [1..n -> EraKeys], prediction \in [1..n -> PredValues],
            feature \in [1..n -> FeatureValues] :
              /\ \A i \in 1..n : \E j \in 1..n : j # i /\ era[j] = era[i]
              /\ dataf = [c \in {"era", "prediction", "feature_1"} |->
                            IF c = "era" THEN era
                            ELSE IF c = "prediction" THEN prediction ELSE feature]
    /\ before = dataf
    /\ proc = NoProc
    /\ lastCall = [op |-> "none", outcome |-> "none"]
    /\ called = FALSE
    /\ pc = "idle"
    /\ fpl = FplIdle
    /\ ret = NoRet
    /\ subm = SubmIdle
    /\ nb = NbIdle

NextEras ==
    \/ \E feature_names \in {<<>>, <<"feature_1">>}, proportion \in ParamInputs :
         FeatureNeutralizerInit(feature_names, proportion)
    \/ FeatureNeutralizerTransform

SpecEras == InitEras /\ [][NextEras]_vars

(***************************************************************************)
(* The loss expression of __train_loop_body on its own, for exposure       *)
(* vectors of up to MaxFeatures features.                                  *)
(***************************************************************************)
ExposureInputs == {-SCALE \div 2, -SCALE \div 5, 0, SCALE \div 5, SCALE \div 2}

InitLoss ==
    /\ dataf = [c \in {"era", "prediction", "feature_1"} |->
                  IF c = "era" THEN <<1>> ELSE <<0>>]
    /\ before = dataf
    /\ proc = NoProc
    /\ lastCall = [op |-> "none", outcome |-> "none"]
    /\ called = FALSE
    /\ pc = "idle"
    /\ fpl = FplIdle
    /\ ret = NoRet
    /\ subm = SubmIdle
    /\ nb = NbIdle

\* the loss of line 167 for current exposures exps and targets target_exps
TrainLoopBodyLoss(exps, target_exps) ==
    /\ ret.op = "none"
    /\ ret' = [op |-> "loss", exps |-> exps, target_exps |-> target_exps,
               terms |-> Eval([f \in 1..Len(exps) |-> LossTerm(exps[f], target_exps[f])]),
               loss |-> Loss(exps, target_exps)]
    /\ UNCHANGED <<subm, nb, dataf, before, proc, lastCall, called, pc, fpl>>

NextLoss ==
    \E n \in 1..MaxFeatures :
        \E exps \in [1..n -> ExposureInputs], target_exps \in [1..n -> ExposureInputs] :
            TrainLoopBodyLoss(exps, target_exps)

SpecLoss == InitLoss /\ [][NextLoss]_vars

(***************************************************************************)
(* Submission (src/numerai_blocks/submission.py).  A submittor validates   *)
(* the prediction values, writes the CSV into its directory and uploads    *)
(* the file through the API.                                               *)
(***************************************************************************)
MaxSubmitRows == 2

\* values of the numeric columns handed to a submittor
SubmitValues == {-(SCALE \div 10), 0, SCALE, SCALE + SCALE \div 10, NaN}

supported_ticker_formats ==
    {"cusip", "sedol", "ticker", "numerai_ticker", "bloomberg_ticker"}

\* the model names api.get_models() knows
get_model_mapping == {"integration_test"}

\* Series.between(0, 1) with NaN admitted
BetweenOrNaN(v) == IsNaN(v) \/ (0 <= v /\ v <= SCALE)

\* Series.between(0, 1): both ends inclusive, False for NaN
Between(v) == ~IsNaN(v) /\ 0 <= v /\ v <= SCALE

\* _check_value_range passes: every value of every column of cols is in range
CheckValueRange(df, cols) ==
    \A i \in 1..Len(cols) : \A r \in 1..Len(df[cols[i]]) : Between(df[cols[i]][r])

\* _check_ticker_format passes: cols names a supported ticker format
CheckTickerFormat(cols) == Range(cols) \cap supported_ticker_formats # {}

\* the frames handed to full_submission
SubmitFrames ==
    UNION { { [c \in {"bloomberg_ticker", "prediction", "signal"} |->
                 IF c = "prediction" THEN p
                 ELSE IF c = "signal" THEN s
                 ELSE [r \in 1..n |-> r]]
              : p \in [1..n -> SubmitValues],
                s \in [1..n -> {0, SCALE + SCALE \div 10, NaN}] }
            : n \in 0..MaxSubmitRows }

SubmitRaise(error) ==
    subm' = [subm EXCEPT !.pc = "ended", !.outcome = error]

\* full_submission (lines 66-82) has been entered and calls save_csv
FullSubmission(kind, df, model_name, cols) ==
    /\ subm.pc = "idle"
    /\ subm' = [subm EXCEPT !.pc = "save_csv", !.kind = kind, !.dataf = df,
                            !.cols = cols, !.model_name = model_name,
                            !.outcome = "running",
                            !.log = <<"full_submission">>]
    /\ UNCHANGED <<nb, postVars>>

\* NumeraiClassicSubmittor.save_csv up to the write (line 190)
ClassicSaveCsv ==
    /\ subm.pc = "save_csv"
    /\ subm.kind = "NumeraiClassicSubmittor"
    /\ IF CheckValueRange(subm.dataf, subm.cols)
         THEN subm' = [subm EXCEPT !.pc = "to_csv",
                                   !.checked = Range(subm.cols),
                                   !.log = Append(@, "_check_value_range")]
         ELSE SubmitRaise("ValueError")
    /\ UNCHANGED <<nb, postVars>>

\* NumeraiSignalsSubmittor.save_csv up to the write (lines 238-242)
SignalsSaveCsv ==
    /\ subm.pc = "save_csv"
    /\ subm.kind = "NumeraiSignalsSubmittor"
    /\ LET cols == IF subm.cols = <<>> THEN <<"bloomberg_ticker", "signal">>
                   ELSE subm.cols
       IN  IF ~CheckTickerFormat(cols)
             THEN SubmitRaise("NotImplementedError")
           ELSE IF ~CheckValueRange(subm.dataf, <<"signal">>)
             THEN SubmitRaise("ValueError")
           ELSE subm' = [subm EXCEPT !.pc = "to_csv", !.cols = cols,
                                     !.checked = {"signal"},
                                     !.log = Append(@, "_check_value_range")]
    /\ UNCHANGED <<nb, postVars>>

\* dataf.loc[:, cols].to_csv(full_path): the last statement of save_csv
ToCsv ==
    /\ subm.pc = "to_csv"
    /\ subm' = [subm EXCEPT !.pc = "upload_predictions",
                            !.files = @ \cup {SelectColumns(subm.dataf, Range(subm.cols))},
                            !.log = Append(@, "to_csv")]
    /\ UNCHANGED <<nb, postVars>>

\* upload_predictions (lines 47-64); accepted tells whether the API call succeeds
UploadPredictions(accepted) ==
    /\ subm.pc = "upload_predictions"
    /\ IF subm.model_name \notin get_model_mapping
         THEN SubmitRaise("KeyError")
       ELSE IF ~accepted
         THEN SubmitRaise("ApiError")
       ELSE subm' = [subm EXCEPT !.pc = "ended", !.outcome = "returned",
                                 !.uploads = Append(@, subm.model_name),
                                 !.log = Append(@, "upload_predictions")]
    /\ UNCHANGED <<nb, postVars>>

InitSubmit == InitLoss

NextSubmit ==
    \/ /\ subm.pc = "idle"
       /\ \E df \in SubmitFrames, model_name \in {"integration_test", "unknown"} :
            \/ \E cols \in {<<"prediction">>, <<"prediction", "signal">>} :
                 FullSubmission("NumeraiClassicSubmittor", df, model_name, cols)
            \/ \E cols \in {<<>>, <<"bloomberg_ticker", "signal">>, <<"signal">>} :
                 FullSubmission("NumeraiSignalsSubmittor", df, model_name, cols)
    \/ ClassicSaveCsv
    \/ SignalsSaveCsv
    \/ ToCsv
    \/ \E accepted \in BOOLEAN : UploadPredictions(accepted)

SpecSubmit == InitSubmit /\ [][NextSubmit]_vars

(***************************************************************************)
(* numerblox preprocessors (src/numerblox/preprocessing.py): stages that   *)
(* fan their work out over a multiprocessing Pool.                         *)
(***************************************************************************)
MaxNbRows == 2      \* rows of the frame handed to a numerblox preprocessor

\* the default of num_quantiles
DefaultNumQuantiles == 50

\* the period of the relative strength index
RsiPeriod == 14

\* the feature columns of the frames, in column order
NbFeatureNames ==
    <<"feature_1", "feature_2", "feature_1_lag1", "feature_1_lag2", "feature_2_lag1">>

\* NumerFrame.feature_cols: the columns whose name starts with "feature"
NumerFrameFeatureCols(df) == SelectSeq(NbFeatureNames, LAMBDA c : c \in DOMAIN df)

\* the rows of df whose column col holds key, in row order
RowsOfGroup(df, col, key) ==
    SeqOfSet({i \in 1..Len(df[col]) : df[col][i] = key})

\* the keys of dataf.groupby(col): ascending
GroupByKeys(df, col) == SeqOfSet(Range(df[col]))

\* QuantileTransformer(n_quantiles).fit_transform on a column of at most
\* n_quantiles values: the quantiles are the sorted values, a value maps to
\* the mean of the reference positions of its first and last occurrence,
\* the minimum to 0 and the maximum to 1 (the lower bound is applied last)
QuantileFitTransform(xs) ==
    LET n == Len(xs)
        lo == SetMin(Range(xs))
        hi == SetMax(Range(xs))
        first(v) == Cardinality({j \in 1..n : xs[j] < v})
        last(v) == Cardinality({j \in 1..n : xs[j] <= v}) - 1
    IN  Eval([i \in 1..n |->
                IF xs[i] = lo THEN 0
                ELSE IF xs[i] = hi THEN SCALE
                ELSE TDiv((first(xs[i]) + last(xs[i])) * SCALE, 2 * (n - 1))])

\* _process_eras: groupby_object.transform(qt) for the column feature
ProcessEras(df, era_col, feature) ==
    Eval([r \in 1..Len(df[era_col]) |->
            LET idx == RowsOfGroup(df, era_col, df[era_col][r])
                k == Cardinality({i \in Range(idx) : i <= r})
            IN  QuantileFitTransform(Take(df[feature], idx))[k]])

QuantileColName(feature, num_quantiles) ==
    feature \o "_quantile" \o ToString(num_quantiles)

\* Series.pct_change(x)
PctChange(xs, x) ==
    Eval([t \in 1..Len(xs) |->
            IF t <= x THEN NaN
            ELSE LET q == FDivide(xs[t], xs[t - x])
                 IN  IF IsFinite(q) THEN q - SCALE ELSE q])

\* Series.rolling(x).mean()
RollingMean(xs, x) ==
    Eval([t \in 1..Len(xs) |->
            IF t < x THEN NaN
            ELSE TDiv(SumSeq([k \in 1..x |-> xs[t - x + k]]), x)])

\* Series.rolling(x).std() of a series without values in its first row:
\* a window needs x values, and two of them for the sample deviation
RollingStdAfterGap(xs, x) ==
    Eval([t \in 1..Len(xs) |->
            IF t <= x \/ x < 2 THEN NaN
            ELSE LET w == [k \in 1..x |-> xs[t - x + k]]
                 IN  Std(w)])

\* Series.ewm(alpha = num / den).mean(), adjust=True
Ema(xs, num, den) ==
    Eval([t \in 1..Len(xs) |->
            LET wt(i) == ((den - num) ^ i) * (den ^ (t - 1 - i))
                terms == [i \in 0..(t - 1) |-> wt(i) * xs[t - i]]
                up == SumSeq([k \in 1..t |-> terms[k - 1]])
                down == SumSeq([k \in 1..t |-> wt(k - 1)])
            IN  IF \E k \in 1..t : IsNaN(xs[k]) THEN NaN ELSE TDiv(up, down)])

\* np.log1p on the closing prices of the frames
Log1p(v) ==
    CASE v = SCALE -> 693
      [] v = 2 * SCALE -> 1099

\* _rsi: the moving averages of the gains and losses need RsiPeriod
\* observations of the difference, which has none in the first row
Rsi(xs) ==
    Eval([t \in 1..Len(xs) |->
            IF t <= RsiPeriod THEN NaN
            ELSE LET up == [k \in 1..(t - 1) |->
                              IF xs[k + 1] > xs[k] THEN xs[k + 1] - xs[k] ELSE 0]
                     down == [k \in 1..(t - 1) |->
                                IF xs[k + 1] < xs[k] THEN xs[k] - xs[k + 1] ELSE 0]
                     rs == FDivide(Ema(up, 1, RsiPeriod)[t - 1],
                                   Ema(down, 1, RsiPeriod)[t - 1])
                 IN  IF IsNaN(rs) THEN NaN
                     ELSE IF IsInf(rs) THEN 100 * SCALE
                     ELSE 100 * SCALE - FDivide(100 * SCALE, SCALE + rs)])

\* _macd: macd and its signal line
Macd(xs) ==
    LET exp1 == Ema(xs, 2, 13)
        exp2 == Ema(xs, 2, 27)
    IN  Eval([t \in 1..Len(xs) |-> FDivide(100 * (exp1[t] - exp2[t]), exp2[t])])

MacdSignal(xs) == Ema(Macd(xs), 2, 10)

\* Series.bfill(): a missing value takes the next value present below it
BFill(xs) ==
    Eval([t \in 1..Len(xs) |->
            LET later == {k \in t..Len(xs) : ~IsNaN(xs[k])}
            IN  IF later = {} THEN NaN ELSE xs[SetMin(later)]])

\* the name of a window feature of the closing price
WindowColName(stem, x) == "feature_close_" \o stem \o "_" \o ToString(x)

\* feature_engineering on the rows idx of one ticker, window x
FeatureEngineering(df, idx, x) ==
    LET close == Take(df["close"], idx)
        logs == PctChange([t \in 1..Len(close) |-> Log1p(close[t])], 1)
    IN  [c \in {"index", "ticker", "close", WindowColName("ROCP", x),
                WindowColName("VOL", x), WindowColName("MA_gap", x),
                "feature_RSI", "feature_MACD", "feature_MACD_signal"} |->
           CASE c = "index" -> idx
             [] c = "ticker" -> Take(df["ticker"], idx)
             [] c = "close" -> close
             [] c = WindowColName("ROCP", x) -> BFill(PctChange(close, x))
             [] c = WindowColName("VOL", x) -> BFill(RollingStdAfterGap(logs, x))
             [] c = WindowColName("MA_gap", x) ->
                  BFill([t \in 1..Len(close) |-> FDivide(close[t], RollingMean(close, x)[t])])
             [] c = "feature_RSI" -> BFill(Rsi(close))
             [] c = "feature_MACD" -> BFill(Macd(close))
             [] c = "feature_MACD_signal" -> BFill(MacdSignal(close))]

RECURSIVE ConcatRows(_)
\* pd.concat(frames): the rows of the frames one after the other
ConcatRows(frames) ==
    IF Len(frames) = 1 THEN frames[1]
    ELSE LET rest == ConcatRows(Tail(frames))
         IN  [c \in DOMAIN frames[1] |-> frames[1][c] \o rest[c]]

\* a preprocessor with a worker pool, right after construction
PoolObject(cls, features, workers) ==
    [cls |-> cls, features |-> features, init_features |-> features,
     num_quantiles |-> DefaultNumQuantiles, era_col |-> "era",
     windows |-> <<1>>, ticker_col |-> "ticker", close_col |-> "close",
     workers |-> workers, pc |-> "idle", calls |-> 0, dataf |-> <<>>, out |-> <<>>,
     tasks |-> <<>>, started |-> 0, finished |-> <<>>, results |-> <<>>,
     outcome |-> "none"]

\* EraQuantileProcessor.__init__; cpu_count workers serve Pool()
EraQuantileProcessorInit(features, cpu_count) ==
    /\ nb.cls = "none"
    /\ nb' = PoolObject("EraQuantileProcessor", features, cpu_count)
    /\ UNCHANGED <<subm, postVars>>

\* KatsuFeatureGenerator.__init__; num_cores workers serve Pool(num_cores)
KatsuFeatureGeneratorInit(num_cores) ==
    /\ nb.cls = "none"
    /\ nb' = PoolObject("KatsuFeatureGenerator", <<>>, num_cores)
    /\ UNCHANGED <<subm, postVars>>

\* the frames handed to EraQuantileProcessor.transform
QuantileFrames ==
    UNION { UNION { { [c \in {"era"} \cup Range(names) |->
                         IF c = "era" THEN e ELSE IF c = "feature_1" THEN f ELSE g]
                      : e \in [1..n -> EraKeys],
                        f \in [1..n -> {0, SCALE \div 4, SCALE}],
                        g \in [1..n -> {0, SCALE}] }
                    : names \in {<<>>, <<"feature_1">>, <<"feature_1", "feature_2">>} }
            : n \in 1..MaxNbRows }

\* the frames handed to KatsuFeatureGenerator.transform
KatsuFrames ==
    UNION { { [c \in {"ticker", "close"} |-> IF c = "ticker" THEN k ELSE v]
              : k \in [1..n -> {1, 2}], v \in [1..n -> {SCALE, 2 * SCALE}] }
            : n \in 1..MaxNbRows }

\* the frames of a later call: the frame of the call before without its
\* second feature column, or with a second feature column
LaterFrames(df) ==
    {SelectColumns(df, (DOMAIN df) \ {"feature_2"}),
     [c \in (DOMAIN df) \cup {"feature_2"} |->
        IF c = "feature_2" THEN [r \in 1..Len(df["era"]) |-> 0] ELSE df[c]]}

\* EraQuantileProcessor.transform up to the pool (lines 527-535), on an
\* object that is not inside a call
EraQuantileProcessorTransform(df) ==
    /\ nb.cls = "EraQuantileProcessor"
    /\ nb.pc \in {"idle", "ended"}
    /\ LET features == IF nb.features # <<>> THEN nb.features
                       ELSE NumerFrameFeatureCols(df)
           entered == [nb EXCEPT !.features = features, !.dataf = df,
                                 !.calls = @ + 1, !.out = <<>>, !.tasks = <<>>,
                                 !.started = 0, !.finished = <<>>,
                                 !.results = <<>>]
       IN  IF ~HasColumns(df, features)
             THEN nb' = [entered EXCEPT !.pc = "ended", !.outcome = "KeyError"]
             ELSE nb' = [entered EXCEPT !.tasks = features, !.pc = "pool",
                                        !.outcome = "running"]
    /\ UNCHANGED <<subm, postVars>>

\* KatsuFeatureGenerator.transform up to the pool (lines 404-414, 442)
KatsuFeatureGeneratorTransform(df) ==
    /\ nb.cls = "KatsuFeatureGenerator"
    /\ nb.pc = "idle"
    /\ nb' = [nb EXCEPT !.dataf = df, !.tasks = GroupByKeys(df, nb.ticker_col),
                        !.calls = @ + 1, !.pc = "pool", !.outcome = "running"]
    /\ UNCHANGED <<subm, postVars>>

\* the pool hands the next task, in submission order, to a free worker
WorkerStart ==
    /\ nb.cls \in {"EraQuantileProcessor", "KatsuFeatureGenerator"}
    /\ nb.pc = "pool"
    /\ nb.started < Len(nb.tasks)
    /\ nb.started - Len(nb.finished) < nb.workers
    /\ nb' = [nb EXCEPT !.started = @ + 1]
    /\ UNCHANGED <<subm, postVars>>

\* the worker running task k finishes it
WorkerFinish(k) ==
    /\ nb.cls \in {"EraQuantileProcessor", "KatsuFeatureGenerator"}
    /\ nb.pc = "pool"
    /\ k \in 1..nb.started
    /\ k \notin Range(nb.finished)
    /\ nb' = [nb EXCEPT !.finished = Append(@, k)]
    /\ UNCHANGED <<subm, postVars>>

\* what the worker of task k sends back
TaskResult(k) ==
    IF nb.cls = "EraQuantileProcessor"
      THEN ProcessEras(nb.dataf, nb.era_col, nb.tasks[k])
      ELSE FeatureEngineering(nb.dataf, RowsOfGroup(nb.dataf, nb.ticker_col, nb.tasks[k]),
                              nb.windows[1])

\* Pool.imap_unordered: the next result is the one that finished next
ImapUnorderedIndex(finished, n) ==
    IF Len(finished) > n THEN finished[n + 1] ELSE n + 1

\* Pool.imap: the next result is that of the next task submitted
ImapIndex(finished, n) == n + 1

\* list(p.imap(...)) takes the next result once it is there
ImapNext ==
    /\ nb.cls \in {"EraQuantileProcessor", "KatsuFeatureGenerator"}
    /\ nb.pc = "pool"
    /\ Len(nb.results) < Len(nb.tasks)
    /\ LET k == ImapIndex(nb.finished, Len(nb.results))
       IN  /\ k \in Range(nb.finished)
           /\ nb' = [nb EXCEPT !.results = Append(@, TaskResult(k))]
    /\ UNCHANGED <<subm, postVars>>

\* EraQuantileProcessor.transform after the pool (lines 543-547)
EraQuantileProcessorCollect ==
    /\ nb.cls = "EraQuantileProcessor"
    /\ nb.pc = "pool"
    /\ Len(nb.results) = Len(nb.tasks)
    /\ IF nb.tasks = <<>>
         THEN nb' = [nb EXCEPT !.pc = "ended", !.outcome = "ValueError"]
         ELSE nb' = [nb EXCEPT
                !.pc = "ended", !.outcome = "returned",
                !.out = [c \in (DOMAIN nb.dataf) \cup
                               {QuantileColName(nb.features[k], nb.num_quantiles)
                                  : k \in 1..Len(nb.features)} |->
                           IF \E k \in 1..Len(nb.features) :
                                c = QuantileColName(nb.features[k], nb.num_quantiles)
                             THEN nb.results[CHOOSE k \in 1..Len(nb.features) :
                                    c = QuantileColName(nb.features[k], nb.num_quantiles)]
                             ELSE nb.dataf[c]]]
    /\ UNCHANGED <<subm, postVars>>

\* KatsuFeatureGenerator._generate_features after the pool (line 450)
KatsuFeatureGeneratorCollect ==
    /\ nb.cls = "KatsuFeatureGenerator"
    /\ nb.pc = "pool"
    /\ Len(nb.results) = Len(nb.tasks)
    /\ nb' = [nb EXCEPT !.pc = "ended", !.outcome = "returned",
                        !.out = ConcatRows(nb.results)]
    /\ UNCHANGED <<subm, postVars>>

InitPool == InitLoss

NextPool ==
    \/ \E features \in {<<>>, <<"feature_1">>, <<"feature_2", "feature_1">>},
          cpu_count \in 1..2 :
         EraQuantileProcessorInit(features, cpu_count)
    \/ \E num_cores \in 1..2 : KatsuFeatureGeneratorInit(num_cores)
    \/ /\ nb.cls = "EraQuantileProcessor"
       /\ nb.pc = "idle"
       /\ \E df \in QuantileFrames : EraQuantileProcessorTransform(df)
    \/ /\ nb.cls = "EraQuantileProcessor"
       /\ nb.pc = "ended"
       /\ nb.calls = 1
       /\ \E df \in LaterFrames(nb.dataf) : EraQuantileProcessorTransform(df)
    \/ /\ nb.cls = "KatsuFeatureGenerator"
       /\ nb.pc = "idle"
       /\ \E df \in KatsuFrames : KatsuFeatureGeneratorTransform(df)
    \/ WorkerStart
    \/ /\ nb.cls \in {"EraQuantileProcessor", "KatsuFeatureGenerator"}
       /\ \E k \in 1..Len(nb.tasks) : WorkerFinish(k)
    \/ ImapNext
    \/ EraQuantileProcessorCollect
    \/ KatsuFeatureGeneratorCollect

SpecPool == InitPool /\ [][NextPool]_vars

(***************************************************************************)
(* ReduceMemoryProcessor (src/numerblox/preprocessing.py).  A frame is a   *)
(* sequence of columns, a column a dtype name and its values; the values   *)
(* of the model have at most 32 bits, floats are whole numbers or NaN.     *)
(***************************************************************************)
IntDtypes == <<"int8", "int16", "int32", "int64">>

\* np.iinfo(t).min and np.iinfo(t).max of the types narrower than int64
IinfoMin(t) ==
    CASE t = "int8" -> -128
      [] t = "int16" -> -32768
      [] t = "int32" -> -2147483647 - 1

IinfoMax(t) ==
    CASE t = "int8" -> 127
      [] t = "int16" -> 32767
      [] t = "int32" -> 2147483647

\* np.finfo(np.float16).max
Float16Max == 65504

\* c_min > np.iinfo(t).min and c_max < np.iinfo(t).max; a number of at most
\* 32 bits is strictly inside the range of int64
StrictlyInsideInt(t, c_min, c_max) ==
    IF t = "int64" THEN TRUE
    ELSE c_min > IinfoMin(t) /\ c_max < IinfoMax(t)

\* the values of t contain the range c_min..c_max
ContainsInt(t, c_min, c_max) ==
    IF t = "int64" THEN TRUE
    ELSE c_min >= IinfoMin(t) /\ c_max <= IinfoMax(t)

\* Series.min() and Series.max(): missing values are skipped
ColumnMin(values) ==
    LET present == {v \in Range(values) : ~IsNaN(v)}
    IN  IF present = {} THEN NaN ELSE SetMin(present)

ColumnMax(values) ==
    LET present == {v \in Range(values) : ~IsNaN(v)}
    IN  IF present = {} THEN NaN ELSE SetMax(present)

RECURSIVE FloorLog2(_)
FloorLog2(n) == IF n < 2 THEN 0 ELSE 1 + FloorLog2(n \div 2)

\* the nearest whole number a binary float with bits digits represents,
\* ties to the even digit
FloatRound(v, bits) ==
    IF IsNaN(v) THEN NaN
    ELSE LET a == Abs(v)
             e == FloorLog2(a)
         IN  IF e < bits THEN v
             ELSE LET ulp == 2 ^ (e - bits + 1)
                      q == a \div ulp
                      r == a % ulp
                      up == 2 * r > ulp \/ (2 * r = ulp /\ q % 2 = 1)
                      m == (IF up THEN q + 1 ELSE q) * ulp
                  IN  IF v < 0 THEN -m ELSE m

\* the branches of lines 166-183: the first branch stores as int16
IntBranches(dtype, c_min, c_max) ==
    IF StrictlyInsideInt("int8", c_min, c_max) THEN "int16"
    ELSE IF StrictlyInsideInt("int16", c_min, c_max) THEN "int16"
    ELSE IF StrictlyInsideInt("int32", c_min, c_max) THEN "int32"
    ELSE IF StrictlyInsideInt("int64", c_min, c_max) THEN "int64"
    ELSE dtype

\* the branches of lines 184-196; a whole number of at most 32 bits is
\* strictly inside the range of float32, NaN compares False
FloatBranches(c_min, c_max) ==
    IF IsNaN(c_min) THEN "float64"
    ELSE IF c_min > -Float16Max /\ c_max < Float16Max THEN "float16"
    ELSE "float32"

\* dataf[col].astype(t) on the values of a column
AsType(values, t) ==
    CASE t = "float16" -> Eval([i \in 1..Len(values) |-> FloatRound(values[i], 11)])
      [] t = "float32" -> Eval([i \in 1..Len(values) |-> FloatRound(values[i], 24)])
      [] OTHER -> values

\* the body of the column loop for one column
ReduceColumn(col) ==
    IF col.dtype \in {"object", "category", "datetime64[ns, UTC]", "datetime64[ns]"}
      THEN col
    ELSE LET c_min == ColumnMin(col.values)
             c_max == ColumnMax(col.values)
             t == IF col.dtype \in Range(IntDtypes)
                    THEN IntBranches(col.dtype, c_min, c_max)
                    ELSE FloatBranches(c_min, c_max)
         IN  [dtype |-> t, values |-> AsType(col.values, t)]

\* _reduce_mem_usage: every column in turn
ReduceMemUsage(df) == Eval([k \in 1..Len(df) |-> ReduceColumn(df[k])])

\* the integers and the floats of the frames
IntInputs == {-2147483647 - 1, -32769, -32768, -129, -128, -127, 0, 126, 127, 128,
              32767, 32768, 2147483647}

FloatInputs == {NaN, -70000, 0, 2049, 65503, 65504, 16777217}

\* the columns with n rows: an integer column has a dtype that holds it
ColumnInputs(n) ==
    { [dtype |-> t, values |-> v] :
        t \in {"float64", "object"}, v \in [1..n -> FloatInputs] }
    \cup UNION { { [dtype |-> t, values |-> v] :
                     t \in {u \in Range(IntDtypes) :
                              ContainsInt(u, SetMin(Range(v)), SetMax(Range(v)))} }
                 : v \in [1..n -> IntInputs] }

\* the frames handed to ReduceMemoryProcessor.transform: one column, or
\* one column followed by a column of zeros
ReduceFrames ==
    UNION { { <<c>> : c \in ColumnInputs(n) }
            \cup { <<c, [dtype |-> "int64", values |-> [r \in 1..n |-> 0]]>>
                   : c \in ColumnInputs(n) }
            : n \in 1..MaxNbRows }

\* ReduceMemoryProcessor.__init__
ReduceMemoryProcessorInit(deep_mem_inspect) ==
    /\ nb.cls = "none"
    /\ nb' = [cls |-> "ReduceMemoryProcessor", deep_mem_inspect |-> deep_mem_inspect,
              pc |-> "idle", dataf |-> <<>>, out |-> <<>>, outcome |-> "none"]
    /\ UNCHANGED <<subm, postVars>>

\* ReduceMemoryProcessor.transform
ReduceMemoryProcessorTransform(df) ==
    /\ nb.cls = "ReduceMemoryProcessor"
    /\ nb.pc = "idle"
    /\ nb' = [nb EXCEPT !.pc = "ended", !.dataf = df, !.out = ReduceMemUsage(df),
                        !.outcome = "returned"]
    /\ UNCHANGED <<subm, postVars>>

InitReduce == InitLoss

NextReduce ==
    \/ \E deep_mem_inspect \in BOOLEAN : ReduceMemoryProcessorInit(deep_mem_inspect)
    \/ /\ nb.cls = "ReduceMemoryProcessor"
       /\ nb.pc = "idle"
       /\ \E df \in ReduceFrames : ReduceMemoryProcessorTransform(df)

SpecReduce == InitReduce /\ [][NextReduce]_vars

(***************************************************************************)
(* DifferencePreProcessor (src/numerblox/preprocessing.py).                *)
(***************************************************************************)
\* windows when none are given
DefaultWindows == <<5, 10, 15, 20>>

LagColName(feature, day) == feature \o "_lag" \o ToString(day)
DiffColName(feature, day) == feature \o "_diff" \o ToString(day)
AbsDiffColName(feature, day) == feature \o "_absdiff" \o ToString(day)

\* dataf.get_pattern_data(f"{feature}_lag").columns: the columns whose name
\* contains the pattern; in the frames of the model these are lag columns
GetPatternData(df, feature) ==
    {c \in DOMAIN df : \E day \in {1, 2, 5, 10, 15, 20} : c = LagColName(feature, day)}

\* dataf[feature] - dataf[lag], or (dataf[feature] / dataf[lag]) - 1
DifferencedValues(xs, lags, pct_diff) ==
    Eval([r \in 1..Len(xs) |->
            IF pct_diff
              THEN LET q == FDivide(xs[r], lags[r])
                   IN  IF IsFinite(q) THEN q - SCALE ELSE q
            ELSE IF IsNaN(xs[r]) \/ IsNaN(lags[r]) THEN NaN
            ELSE xs[r] - lags[r]])

\* np.abs
NpAbs(xs) ==
    Eval([r \in 1..Len(xs) |->
            IF IsNaN(xs[r]) THEN NaN
            ELSE IF IsInf(xs[r]) THEN PosInf
            ELSE Abs(xs[r])])

RECURSIVE DiffDays(_, _, _, _)
\* for day in self.windows (lines 698-709), from the k-th window on
DiffDays(df, p, feature, k) ==
    IF k > Len(p.windows) THEN [df |-> df, outcome |-> "returned"]
    ELSE LET day == p.windows[k]
         IN  IF feature \notin DOMAIN df \/ LagColName(feature, day) \notin DOMAIN df
               THEN [df |-> df, outcome |-> "KeyError"]
             ELSE LET diff == DifferencedValues(df[feature],
                                                df[LagColName(feature, day)], p.pct_diff)
                      d1 == SetColumn(df, DiffColName(feature, day), diff)
                      d2 == IF p.abs_diff
                              THEN SetColumn(d1, AbsDiffColName(feature, day), NpAbs(diff))
                              ELSE d1
                  IN  DiffDays(d2, p, feature, k + 1)

RECURSIVE DiffFeatures(_, _, _)
\* for feature in self.feature_names (lines 695-713), from the j-th on
DiffFeatures(df, p, j) ==
    IF j > Len(p.feature_names) THEN [df |-> df, outcome |-> "returned"]
    ELSE IF GetPatternData(df, p.feature_names[j]) = {}
      THEN DiffFeatures(df, p, j + 1)
    ELSE LET r == DiffDays(df, p, p.feature_names[j], 1)
         IN  IF r.outcome = "KeyError" THEN r ELSE DiffFeatures(r.df, p, j + 1)

\* DifferencePreProcessor.__init__; is_none tells that feature_names was
\* left at None, no_windows that windows was
DifferencePreProcessorInit(no_windows, windows, is_none, feature_names, pct_diff, abs_diff) ==
    /\ nb.cls = "none"
    /\ nb' = [cls |-> "DifferencePreProcessor",
              windows |-> IF no_windows THEN DefaultWindows ELSE windows,
              feature_names_is_none |-> is_none,
              feature_names |-> IF is_none THEN <<>> ELSE feature_names,
              pct_diff |-> pct_diff, abs_diff |-> abs_diff,
              pc |-> "idle", dataf |-> <<>>, out |-> <<>>, outcome |-> "none"]
    /\ UNCHANGED <<subm, postVars>>

\* DifferencePreProcessor.transform: the loop of line 695 runs over
\* self.feature_names, not over the feature_names of line 694
DifferencePreProcessorTransform(df) ==
    /\ nb.cls = "DifferencePreProcessor"
    /\ nb.pc = "idle"
    /\ IF nb.feature_names_is_none
         THEN nb' = [nb EXCEPT !.pc = "ended", !.dataf = df, !.out = df,
                               !.outcome = "TypeError"]
         ELSE LET r == DiffFeatures(df, nb, 1)
              IN  nb' = [nb EXCEPT !.pc = "ended", !.dataf = df, !.out = r.df,
                                   !.outcome = r.outcome]
    /\ UNCHANGED <<subm, postVars>>

\* the frames handed to DifferencePreProcessor.transform
DifferenceFrames ==
    UNION { UNION { { [c \in cols |->
                         IF c = "era" THEN [r \in 1..n |-> 1]
                         ELSE IF c = "feature_1" THEN f
                         ELSE IF c = "feature_1_lag1" THEN g
                         ELSE IF c = "feature_2" THEN [r \in 1..n |-> 2 * SCALE]
                         ELSE [r \in 1..n |-> SCALE]]
                      : f \in [1..n -> {SCALE, 2 * SCALE}],
                        g \in [1..n -> {NaN, 0, SCALE}] }
                    : cols \in {{"era", "feature_1"},
                                {"era", "feature_1", "feature_1_lag1"},
                                {"era", "feature_1", "feature_2", "feature_1_lag1"},
                                {"era", "feature_1", "feature_2", "feature_1_lag1",
                                 "feature_1_lag2"},
                                {"era", "feature_1", "feature_2", "feature_1_lag1",
                                 "feature_2_lag1"}} }
            : n \in 1..MaxNbRows }

InitDifference == InitLoss

NextDifference ==
    \/ \E no_windows \in BOOLEAN, windows \in {<<1>>, <<1, 2>>}, is_none \in BOOLEAN,
          feature_names \in {<<>>, <<"feature_1">>, <<"feature_2", "feature_1">>},
          pct_diff \in BOOLEAN, abs_diff \in BOOLEAN :
         DifferencePreProcessorInit(no_windows, windows, is_none, feature_names,
                                    pct_diff, abs_diff)
    \/ /\ nb.cls = "DifferencePreProcessor"
       /\ nb.pc = "idle"
       /\ \E df \in DifferenceFrames : DifferencePreProcessorTransform(df)

SpecDifference == InitDifference /\ [][NextDifference]_vars

(***************************************************************************)
(* Properties.                                                             *)
(***************************************************************************)
Ended(op) == lastCall.op = op /\ lastCall.outcome # "running"
Returned(op) == lastCall.op = op /\ lastCall.outcome = "returned"

\* a call that ran the era loop of reduce_all_exposures has ended
PenalizerRunEnded ==
    /\ \/ Ended("FeaturePenalizer.transform")
       \/ Ended("FeaturePenalizer.reduce_all_exposures")
    /\ fpl.era_idx > 0

\* the frame df with the prediction and the feature of row r replaced
Perturb(df, r, prediction, feature) ==
    [c \in DOMAIN df |->
        IF c = "prediction" THEN [df[c] EXCEPT ![r] = prediction]
        ELSE IF c = "feature_1" THEN [df[c] EXCEPT ![r] = feature]
        ELSE df[c]]

\* C1: the neutralized value of a row depends on the rows of its own era
\* only: replacing the prediction and the feature value of a row r leaves
\* the output of every row of the other eras as it is.
EraIsolationNeutralizer ==
    Returned("FeatureNeutralizer.transform") =>
        \A r \in 1..NRows(before), prediction \in PredValues, feature \in FeatureValues :
            LET other == NeutralizedColumn(Perturb(before, r, prediction, feature), proc)
            IN  \A q \in 1..NRows(before) :
                    before["era"][q] # before["era"][r]
                        => other[q] = dataf[proc.new_col_name][q]

\* C2: a run of reduce_all_exposures processes every era: each era gets a
\* corrective model and an optimizer of its own and yields one block of
\* scores, rescaled with its own std, min and max.
PenalizerProcessesEveryEra ==
    PenalizerRunEnded =>
        /\ Len(fpl.neutralized) = Len(fpl.eras)
        /\ \A e \in 1..Len(fpl.eras) :
              Len(fpl.neutralized[e])
                  = Cardinality(RowsOfEra(before, fpl.eras[e]))

\* C3: reduce_all_exposures returns a frame with as many rows as its input,
\* row r holding the penalized score of input row r.
RecombinationRestoresRows ==
    PenalizerRunEnded =>
        /\ lastCall.outcome = "returned"
        /\ Len(fpl.predictions) = NRows(before)

\* C4: FeatureNeutralizer.transform and FeaturePenalizer.transform leave
\* the pred_name column as it was; whatever they change is a column with
\* another name.
PredictionColumnPreserved ==
    (lastCall.op \in {"FeatureNeutralizer.transform", "FeaturePenalizer.transform"}) =>
        /\ dataf[proc.pred_name] = before[proc.pred_name]
        /\ \A c \in DOMAIN dataf :
              (c \notin DOMAIN before \/ dataf[c] # before[c]) => c # proc.pred_name
        /\ DOMAIN before \subseteq DOMAIN dataf

NeutralizedColumnWritten ==
    /\ Returned("FeatureNeutralizer.transform")
    /\ proc.new_col_name \in DOMAIN dataf
    /\ proc.new_col_name \notin DOMAIN before
    /\ \E i \in 1..NRows(dataf) : ~IsNaN(dataf[proc.new_col_name][i])

OutputColumns(p) ==
    IF p.cls = "MeanEnsembler" THEN {p.final_col_name}
    ELSE IF p.cls = "FeatureNeutralizer" THEN {p.new_col_name}
    ELSE {}

OutputInUnitRange ==
    \A c \in (DOMAIN dataf) \ (DOMAIN before) :
        (lastCall.op \in {"FeatureNeutralizer.transform", "FeaturePenalizer.transform"})
            => \A i \in 1..NRows(dataf) :
                   /\ ~IsNaN(dataf[c][i])
                   /\ 0 <= dataf[c][i]
                   /\ dataf[c][i] <= SCALE

\* tolerance of the exposure cap
ExposureTolerance == SCALE \div 100

TrainLoopStops ==
    /\ fpl.i <= TrainBudget
    /\ (PenalizerRunEnded /\ fpl.optimizer) =>
          \/ fpl.stop = "converged"
          \/ fpl.stop = "budget" /\ fpl.i = TrainBudget

\* C9: an era whose optimisation is numerically undefined (NaN exposures,
\* hence a NaN loss) makes the penalizer fail with a numerical error.
NaNLossRaisesNumericalError ==
    (/\ PenalizerRunEnded
     /\ fpl.optimizer
     /\ \E f \in 1..Len(fpl.target_exps) : IsNaN(fpl.target_exps[f]))
        => lastCall.outcome = "NumericalError"

\* C10: a FeatureNeutralizer or FeaturePenalizer object exists only with
\* its parameter in [0,1]; a constructor given a parameter outside the
\* range fails and nothing has been applied to the dataset.
ParametersInRange ==
    /\ proc.cls = "FeatureNeutralizer"
          => 0 <= proc.proportion /\ proc.proportion <= SCALE
    /\ proc.cls = "FeaturePenalizer"
          => 0 <= proc.max_exposure /\ proc.max_exposure <= SCALE
    /\ lastCall.outcome = "AssertionError"
          => proc.cls = "none" /\ ~called /\ dataf = before

OutOfRangeRejected ==
    /\ lastCall.op \in {"FeatureNeutralizer.__init__", "FeaturePenalizer.__init__"}
    /\ lastCall.outcome = "AssertionError"

\* C11: with proportion = 0 the neutralized output orders the rows of an
\* era as the input scores do: a row with a smaller score than another row
\* of its era has the smaller output.
RankOrderKeptAtZeroProportion ==
    (Returned("FeatureNeutralizer.transform") /\ proc.proportion = 0) =>
        \A i \in 1..NRows(before), j \in 1..NRows(before) :
            (/\ before["era"][i] = before["era"][j]
             /\ before[proc.pred_name][i] < before[proc.pred_name][j])
                => /\ ~IsNaN(dataf[proc.new_col_name][i])
                   /\ ~IsNaN(dataf[proc.new_col_name][j])
                   /\ dataf[proc.new_col_name][i] < dataf[proc.new_col_name][j]

ZeroProportionApplied ==
    /\ Returned("FeatureNeutralizer.transform")
    /\ proc.proportion = 0
    /\ proc.feature_names # <<>>
    /\ \E i \in 1..NRows(before), j \in 1..NRows(before) :
          /\ before["era"][i] = before["era"][j]
          /\ before["prediction"][i] < before["prediction"][j]
          /\ before["feature_1"][i] # before["feature_1"][j]

\* tolerance of a (near-)zero correlation
CorrelationTolerance == SCALE \div 20

\* linear correlation of two columns
Correlation(xs, ys) == Exposures(<<xs>>, ys)[1]

\* C12: with proportion = 1 the neutralized scores of an era have (near-)
\* zero linear correlation with the exposure column, whenever that column
\* has full rank and is not constant over the era.
ExposureRemovedAtFullProportion ==
    (/\ Returned("FeatureNeutralizer.transform")
     /\ proc.proportion = SCALE
     /\ proc.feature_names = <<"feature_1">>) =>
        \A era \in Range(before["era"]) :
            LET idx == SeqOfSet(RowsOfEra(before, era))
                exposure == Take(before["feature_1"], idx)
                neutralized == Take(dataf[proc.new_col_name], idx)
            IN  Cardinality(Range(exposure)) > 1
                    => /\ ~IsNaN(Correlation(exposure, neutralized))
                       /\ Abs(Correlation(exposure, neutralized)) <= CorrelationTolerance

\* start_exp of reduce_exposure for the era the penalizer is working on
StartExp == Exposures(Feats(fpl.exposure_values), fpl.scores)

\* every feature of the era starts inside the band [-max_exp, max_exp]
StartsInsideBand ==
    \A f \in 1..Len(fpl.neutralizers) :
        ~IsNaN(StartExp[f]) /\ Abs(StartExp[f]) <= proc.max_exposure

Max(a, b) == IF a >= b THEN a ELSE b

RanksWellDefined ==
    lastCall.op = "FeatureNeutralizer._normalize" =>
        LET xs == before["prediction"]
            n == Len(xs)
        IN  /\ lastCall.outcome = "returned"
            /\ Len(ret.ranks) = n
            /\ Range(ret.ranks) = 1..n
            /\ \A i \in 1..n, j \in 1..n :
                  /\ xs[i] < xs[j] => ret.ranks[i] < ret.ranks[j]
                  /\ (xs[i] = xs[j] /\ i < j) => ret.ranks[i] < ret.ranks[j]
            /\ \A i \in 1..n :
                  /\ 0 < ret.normalized_ranks[i]
                  /\ ret.normalized_ranks[i] < SCALE
                  /\ IsFinite(ret.value[i])

AllEqualScoresRanked ==
    /\ Returned("FeatureNeutralizer._normalize")
    /\ Len(before["prediction"]) > 1
    /\ Cardinality(Range(before["prediction"])) = 1
    /\ Cardinality(Range(ret.ranks)) = Len(before["prediction"])

\* C16: an era of a single row is handled without failure:
\* FeatureNeutralizer.transform returns and the row of that era has a
\* defined (non-NaN) neutralized score.
SingleRowEraHandled ==
    lastCall.op = "FeatureNeutralizer.transform" =>
        \A i \in 1..NRows(before) :
            Cardinality(RowsOfEra(before, before["era"][i])) = 1
                => /\ lastCall.outcome = "returned"
                   /\ ~IsNaN(dataf[proc.new_col_name][i])

\* C17: a run of the penalizer on an exposure matrix with zero columns
\* returns the scores unchanged: it does not fail, creates no optimizer and
\* makes no training step.
ZeroColumnsReturnScores ==
    (PenalizerRunEnded /\ fpl.neutralizers = <<>>) =>
        /\ lastCall.outcome = "returned"
        /\ ~fpl.optimizer
        /\ fpl.stop = "none"
        /\ fpl.predictions = before[proc.pred_name]

\* reduce_exposure called with weights that fit the model made no training
\* step and no optimizer, returned the given weights and returned, for
\* every row, the prediction minus the weighted, shifted features
WarmCallApplied ==
    /\ Returned("FeaturePenalizer.reduce_exposure")
    /\ ~ret.optimizer
    /\ ret.steps = 0
    /\ ret.weights = ret.given
    /\ \A i \in 1..NRows(before) :
          ret.scores[i] = before["prediction"][i]
                            - TDiv((before["feature_1"][i] - SCALE \div 2) * ret.given[1],
                                   SCALE)

\* C18: reduce_exposure with supplied weights that fit the model applies
\* them without training, and a fit (weights=None) returns weights with
\* which a second call on the same prediction and features gives the
\* scores of the fit.
WarmStartReplays ==
    /\ (lastCall.op = "FeaturePenalizer.reduce_exposure" /\ Len(ret.given) = 1)
          => WarmCallApplied
    /\ (PenalizerRunEnded /\ fpl.optimizer) =>
          /\ lastCall.outcome = "returned"
          /\ Len(fpl.weights) = Len(fpl.neutralizers)
          /\ PenalizedScores(fpl.scores, fpl.exposure_values, fpl.weights)
                = fpl.penalized

Ascending(keys) == \A a \in 1..Len(keys), b \in 1..Len(keys) : a < b => keys[a] < keys[b]

\* row at which an era key first appears
FirstRow(df, era) == SetMin(RowsOfEra(df, era))

SubmittedPredictionCols ==
    IF subm.kind = "NumeraiClassicSubmittor" THEN Range(subm.cols) ELSE {"signal"}

\* every value of the submitted prediction columns lies in [0, 1]
SubmittedValuesInRange ==
    \A c \in SubmittedPredictionCols : \A r \in 1..Len(subm.dataf[c]) :
        /\ subm.dataf[c][r] # NaN
        /\ subm.dataf[c][r] >= 0
        /\ subm.dataf[c][r] <= SCALE

SubmissionRefused ==
    /\ subm.kind = "NumeraiClassicSubmittor"
    /\ subm.outcome = "ValueError"
    /\ \E r \in 1..Len(subm.dataf["prediction"]) : subm.dataf["prediction"][r] = NaN

\* a preprocessor with a worker pool is past the start of its transform
PoolRunning ==
    /\ nb.cls \in {"EraQuantileProcessor", "KatsuFeatureGenerator"}
    /\ nb.pc \in {"pool", "ended"}
    /\ nb.outcome # "KeyError"

\* the frame the call must return whatever the workers' timing
PoolExpectedOutput ==
    IF nb.cls = "EraQuantileProcessor"
      THEN [c \in DOMAIN nb.out |->
              IF c \in DOMAIN nb.dataf THEN nb.dataf[c]
              ELSE ProcessEras(nb.dataf, nb.era_col,
                     CHOOSE f \in Range(nb.features) :
                       c = QuantileColName(f, nb.num_quantiles))]
      ELSE LET keys == GroupByKeys(nb.dataf, nb.ticker_col)
           IN  ConcatRows([g \in 1..Len(keys) |->
                  FeatureEngineering(nb.dataf,
                                     RowsOfGroup(nb.dataf, nb.ticker_col, keys[g]),
                                     nb.windows[1])])

\* C22: the results of the pool are collected in submission order: the k-th
\* collected result is that of the k-th submitted group whatever the order
\* in which the workers finished, every submitted group contributes exactly
\* one result, and the returned frame depends on the input alone.
ResultsInSubmissionOrder ==
    PoolRunning =>
        /\ Len(nb.results) <= Len(nb.tasks)
        /\ \A k \in 1..Len(nb.results) : nb.results[k] = TaskResult(k)
        /\ nb.outcome = "returned" =>
             /\ Len(nb.results) = Len(nb.tasks)
             /\ Len(nb.finished) = Len(nb.tasks)
             /\ nb.out = PoolExpectedOutput

\* the second group finished first and the two results differ
LaterGroupFinishedFirst ==
    /\ PoolRunning
    /\ nb.outcome = "returned"
    /\ nb.finished = <<2, 1>>
    /\ nb.results[1] # nb.results[2]

\* the features a freshly constructed processor would quantile on nb.dataf
FreshFeatures ==
    IF nb.init_features # <<>> THEN nb.init_features
    ELSE NumerFrameFeatureCols(nb.dataf)

\* how the call of a freshly constructed processor on nb.dataf would end
FreshOutcome ==
    IF ~HasColumns(nb.dataf, FreshFeatures) THEN "KeyError"
    ELSE IF FreshFeatures = <<>> THEN "ValueError"
    ELSE "returned"

\* C23: transform leaves every configuration field of the processor as the
\* constructor set it, and a second call ends as the call of a freshly
\* constructed processor would, with the same quantile columns.
TransformKeepsConfiguration ==
    (nb.cls = "EraQuantileProcessor" /\ nb.pc = "ended") =>
        /\ nb.features = nb.init_features
        /\ nb.outcome = FreshOutcome
        /\ nb.outcome = "returned" =>
             DOMAIN nb.out = (DOMAIN nb.dataf) \cup
                 {QuantileColName(f, nb.num_quantiles) : f \in Range(FreshFeatures)}

\* the second call of a processor on a frame with one more feature column
SecondCallMissesFeature ==
    /\ nb.cls = "EraQuantileProcessor"
    /\ nb.pc = "ended"
    /\ nb.calls = 2
    /\ nb.init_features = <<>>
    /\ nb.outcome = "returned"
    /\ "feature_2" \in DOMAIN nb.dataf
    /\ QuantileColName("feature_2", nb.num_quantiles) \notin DOMAIN nb.out

\* C24: a training step measures the exposures with the exposure function
\* that computed the start exposures, so the first step of a run that
\* created an optimizer completes: it raises no attribute error and yields
\* a loss.
TrainingStepCompletes ==
    (PenalizerRunEnded /\ fpl.optimizer) =>
        /\ lastCall.outcome # "AttributeError"
        /\ fpl.stop # "raised"

\* the rows of the era the penalizer is working on
CurrentEraRows == SeqOfSet(RowsOfEra(before, fpl.eras[fpl.era_idx]))

\* C25: with normalize=True the era loop of reduce_all_exposures replaces
\* the scores of the era by the gaussianized ordinal ranks of the whole era
\* vector, the values FeatureNeutralizer._normalize gives for that vector.
PenalizerNormalizesEraScores ==
    (/\ PenalizerRunEnded
     /\ fpl.normalize
     /\ HasColumns(before, fpl.neutralizers)) =>
        /\ lastCall.outcome # "TypeError"
        /\ fpl.scores = Normalize(Take(before[proc.pred_name], CurrentEraRows))

\* the narrowest of int8, int16, int32, int64 that holds every value
NarrowestInt(values) ==
    IntDtypes[SetMin({k \in 1..Len(IntDtypes) :
                        ContainsInt(IntDtypes[k], SetMin(Range(values)),
                                    SetMax(Range(values)))})]

\* C26: ReduceMemoryProcessor stores every integer column in the narrowest
\* of int8, int16, int32 and int64 that holds all its values, and keeps the
\* values.
IntegerColumnsNarrowest ==
    (nb.cls = "ReduceMemoryProcessor" /\ nb.pc = "ended") =>
        \A k \in 1..Len(nb.dataf) :
            nb.dataf[k].dtype \in Range(IntDtypes) =>
                /\ nb.out[k].values = nb.dataf[k].values
                /\ nb.out[k].dtype = NarrowestInt(nb.dataf[k].values)

\* the feature has a lag column for every window of the processor
LagsForEveryWindow(feature) ==
    \A k \in 1..Len(nb.windows) : LagColName(feature, nb.windows[k]) \in DOMAIN nb.dataf

\* C27: a DifferencePreProcessor constructed without feature_names handles
\* every feature column of the frame: a feature with lag columns gets its
\* difference column for every window, a feature without lag columns is
\* skipped and gets none, and the call returns.
DifferenceDefaultsToLaggedFeatures ==
    (/\ nb.cls = "DifferencePreProcessor"
     /\ nb.pc = "ended"
     /\ nb.feature_names_is_none
     /\ \A f \in Range(NumerFrameFeatureCols(nb.dataf)) :
           GetPatternData(nb.dataf, f) # {} => LagsForEveryWindow(f)) =>
        /\ nb.outcome = "returned"
        /\ \A f \in Range(NumerFrameFeatureCols(nb.dataf)) :
              \A k \in 1..Len(nb.windows) :
                  DiffColName(f, nb.windows[k]) \in DOMAIN nb.out
                      <=> GetPatternData(nb.dataf, f) # {}

\* C28: in every iteration of _train_loop the optimizer step comes before
\* the convergence test, so a run that created an optimizer has applied at
\* least one gradient update when the loop is left, by convergence or by
\* the budget.
UpdateAppliedBeforeTest ==
    (PenalizerRunEnded /\ fpl.optimizer) =>
        /\ fpl.i >= 1
        /\ fpl.stop \in {"converged", "budget"}

\* the exposure e lies between 0 and the target t, both ends included
BetweenZeroAndTarget(e, t) == (0 <= e /\ e <= t) \/ (t <= e /\ e <= 0)

PenalizedColumns ==
    {NewPredCol(proc.pred_name, proc.model_list[m], proc.max_exposure)
       : m \in 1..Len(proc.model_list)}

\* C30: FeaturePenalizer.transform on a frame that has the risky feature
\* columns returns and has written exactly one column per entry of
\* model_list, named prediction_<pred_name>_<model_name>_FP_<max_exposure>;
\* the columns written by one call hold the same values, and an empty
\* model_list writes no column.
OneColumnPerModel ==
    (/\ Ended("FeaturePenalizer.transform")
     /\ HasColumns(before, fpl.neutralizers)) =>
        /\ lastCall.outcome = "returned"
        /\ (DOMAIN dataf) \ (DOMAIN before) = PenalizedColumns
        /\ \A c, d \in PenalizedColumns : dataf[c] = dataf[d]
        /\ \A c \in DOMAIN before : dataf[c] = before[c]

====
